---------------------------- MODULE Spec2Model ----------------------------
(***************************************************************************)
(* State-machine model of the calculator of src/main.ts (src/main.js is    *)
(* its compiled twin).                                                     *)
(*                                                                         *)
(* Text (currentValue, currentExpression, the error text) is a sequence of *)
(* one-character strings, so that slicing, startsWith, includes and        *)
(* template concatenation are modelled by what they do.                    *)
(*                                                                         *)
(* A JavaScript number is a record [kind, sign, m, e]:                     *)
(*   kind = "null"  the value null of previousValue                        *)
(*   kind = "nan"   NaN                                                    *)
(*   kind = "inf"   sign * Infinity                                        *)
(*   kind = "fin"   the double nearest to the decimal sign * m * 10^(-e),  *)
(*                  normalised (m carries no trailing zero when e > 0);    *)
(*                  m = 0 with sign = -1 is the double -0                  *)
(*   kind = "undef" not a number of the program: the marker for a result   *)
(*                  that lies outside the modelled range (see Exact and    *)
(*                  Fits); a command whose arithmetic yields it is not     *)
(*                  taken by the model.                                    *)
(* Decimals of at most 15 significant digits name distinct doubles and are *)
(* printed back by Number.prototype.toString as the same decimal, so the   *)
(* record is a faithful name of the double within the bounds below.        *)
(***************************************************************************)
EXTENDS Integers, Sequences, FiniteSets, TLC

(***************************************************************************)
(* Bounds of the model.                                                    *)
(***************************************************************************)
\* longest currentValue that a digit may still be appended to
MaxLen == 2
\* largest mantissa m of an arithmetic result
MaxMantissa == 200
\* longest currentExpression a command may build
MaxExprLen == 7

(***************************************************************************)
(* Text helpers.                                                           *)
(***************************************************************************)
DigitChars == <<"0", "1", "2", "3", "4", "5", "6", "7", "8", "9">>

Digits == {DigitChars[i] : i \in 1..10}

IsDigit(c) == c \in Digits

DigitValues == [c \in Digits |-> (CHOOSE i \in 1..10 : DigitChars[i] = c) - 1]

DigitVal(c) == DigitValues[c]

\* String.prototype.startsWith with a one-character argument
StartsWith(s, c) == Len(s) >= 1 /\ s[1] = c

\* String.prototype.includes with a one-character argument
Includes(s, c) == \E i \in 1..Len(s) : s[i] = c

\* s.slice(1)
SliceFrom1(s) == SubSeq(s, 2, Len(s))

\* s.slice(0, -1)
SliceDropLast(s) == SubSeq(s, 1, Len(s) - 1)

\* whether p is a prefix of s
HasPrefix(s, p) == Len(s) >= Len(p) /\ SubSeq(s, 1, Len(p)) = p

StrNaN == <<"N", "a", "N">>
StrInfinity == <<"I", "n", "f", "i", "n", "i", "t", "y">>

(***************************************************************************)
(* Numbers.                                                                *)
(***************************************************************************)
Null == [kind |-> "null", sign |-> 1, m |-> 0, e |-> 0]
NaN == [kind |-> "nan", sign |-> 1, m |-> 0, e |-> 0]
Undef == [kind |-> "undef", sign |-> 1, m |-> 0, e |-> 0]
Inf(s) == [kind |-> "inf", sign |-> s, m |-> 0, e |-> 0]

RECURSIVE Pow10(_)
Pow10(k) == IF k = 0 THEN 1 ELSE 10 * Pow10(k - 1)

RECURSIVE Pow5(_)
Pow5(k) == IF k = 0 THEN 1 ELSE 5 * Pow5(k - 1)

\* the finite number sign * m * 10^(-e), normalised
RECURSIVE Fin(_, _, _)
Fin(s, m, e) ==
    IF e > 0 /\ m % 10 = 0 THEN Fin(s, m \div 10, e - 1)
    ELSE [kind |-> "fin", sign |-> s, m |-> m, e |-> e]

IsZero(a) == a.kind = "fin" /\ a.m = 0

\* a is held by a double exactly: m * 10^(-e) is a dyadic rational
Exact(a) == a.kind = "fin" /\ a.e <= 6 /\ a.m % Pow5(a.e) = 0

\* a result the model keeps: its mantissa is within the bound
Fits(a) == a.kind # "fin" \/ a.m <= MaxMantissa

Neg(a) == IF a.kind \in {"fin", "inf"} THEN [a EXCEPT !.sign = -a.sign] ELSE a

\* a < 0 of JavaScript (false for NaN and for -0)
LessThanZero(a) == a.kind \in {"fin", "inf"} /\ a.sign = -1 /\ ~IsZero(a)

\* b === 0 of JavaScript (true for 0 and for -0)
StrictEqualsZero(b) == IsZero(b)


(***************************************************************************)
(* parseFloat and Number.prototype.toString.  The text of the program      *)
(* never holds a sign other than a leading "-", white space, or an "e", so *)
(* the exponent part and the trimming of parseFloat have nothing to do.    *)
(***************************************************************************)
\* the position after the longest run of digits of s that starts at i
RECURSIVE DigitsEnd(_, _)
DigitsEnd(s, i) ==
    IF i <= Len(s) /\ IsDigit(s[i]) THEN DigitsEnd(s, i + 1) ELSE i

\* the value of the digits s[i] .. s[j-1], appended to the value acc
RECURSIVE DigitsValue(_, _, _, _)
DigitsValue(s, i, j, acc) ==
    IF i >= j THEN acc
    ELSE DigitsValue(s, i + 1, j, acc * 10 + DigitVal(s[i]))

\* parseFloat(s): the longest prefix of s that is a decimal literal
parseFloat(s) ==
    LET neg == StartsWith(s, "-")
        sg == IF neg THEN -1 ELSE 1
        t == IF neg THEN SliceFrom1(s) ELSE s
        i1 == DigitsEnd(t, 1)
        hasDot == i1 <= Len(t) /\ t[i1] = "."
        i2 == IF hasDot THEN DigitsEnd(t, i1 + 1) ELSE i1
        nInt == i1 - 1
        nFrac == IF hasDot THEN i2 - i1 - 1 ELSE 0
    IN  IF HasPrefix(t, StrInfinity) THEN Inf(sg)
        ELSE IF nInt + nFrac = 0 THEN NaN
        ELSE Fin(sg, DigitsValue(t, 1, i1, 0) * Pow10(nFrac)
                     + DigitsValue(t, i1 + 1, i2, 0), nFrac)

RECURSIVE NatToStr(_)
NatToStr(n) ==
    IF n < 10 THEN <<DigitChars[n + 1]>>
    ELSE NatToStr(n \div 10) \o <<DigitChars[(n % 10) + 1]>>

Zeros(k) == [i \in 1..k |-> "0"]

\* Number.prototype.toString (radix 10) for 1e-6 <= |a| < 1e21, 0, NaN and
\* the infinities: the decimal of the record, no exponent
toString(a) ==
    IF a.kind = "nan" THEN StrNaN
    ELSE IF a.kind = "inf"
    THEN (IF a.sign = -1 THEN <<"-">> ELSE <<>>) \o StrInfinity
    ELSE IF a.m = 0 THEN <<"0">>
    ELSE LET ds == NatToStr(a.m)
             n == Len(ds)
             body == IF a.e = 0 THEN ds
                     ELSE IF n > a.e
                     THEN SubSeq(ds, 1, n - a.e) \o <<".">>
                          \o SubSeq(ds, n - a.e + 1, n)
                     ELSE <<"0", ".">> \o Zeros(a.e - n) \o ds
         IN  (IF a.sign = -1 THEN <<"-">> ELSE <<>>) \o body

(***************************************************************************)
(* The arithmetic of src/main.ts lines 3-8 on doubles.  A result is        *)
(* computed when the operands are exact doubles and the exact result is a  *)
(* decimal within the bounds (IEEE 754 then returns the double nearest to  *)
(* it, which the record names); otherwise the result is Undef.             *)
(***************************************************************************)
Keep(r) == IF Fits(r) THEN r ELSE Undef

Max(x, y) == IF x >= y THEN x ELSE y

Abs(x) == IF x < 0 THEN -x ELSE x

RECURSIVE GCD(_, _)
GCD(x, y) == IF y = 0 THEN x ELSE GCD(y, x % y)

IsInt(b) == b.kind = "fin" /\ b.e = 0

IsOddInt(b) == IsInt(b) /\ b.m % 2 = 1

\* |a| compared with 1, for a finite a: -1, 0 or 1
CmpAbsOne(a) ==
    IF a.m < Pow10(a.e) THEN -1 ELSE IF a.m = Pow10(a.e) THEN 0 ELSE 1

\* const add = (a, b = 0) => a + b
add(a, b) ==
    IF a.kind = "nan" \/ b.kind = "nan" THEN NaN
    ELSE IF a.kind = "inf" /\ b.kind = "inf"
    THEN (IF a.sign = b.sign THEN a ELSE NaN)
    ELSE IF a.kind = "inf" THEN a
    ELSE IF b.kind = "inf" THEN b
    ELSE IF ~(Exact(a) /\ Exact(b)) THEN Undef
    ELSE LET e == Max(a.e, b.e)
             v == a.sign * a.m * Pow10(e - a.e) + b.sign * b.m * Pow10(e - b.e)
         IN  IF v = 0
             THEN Fin(IF a.sign = -1 /\ b.sign = -1 THEN -1 ELSE 1, 0, 0)
             ELSE Keep(Fin(IF v < 0 THEN -1 ELSE 1, Abs(v), e))

\* const subtract = (a, b = 0) => a - b
subtract(a, b) == add(a, Neg(b))

\* const multiply = (a, b = 1) => a * b
multiply(a, b) ==
    IF a.kind = "nan" \/ b.kind = "nan" THEN NaN
    ELSE IF a.kind = "inf" \/ b.kind = "inf"
    THEN (IF IsZero(a) \/ IsZero(b) THEN NaN ELSE Inf(a.sign * b.sign))
    ELSE IF ~(Exact(a) /\ Exact(b)) THEN Undef
    ELSE Keep(Fin(a.sign * b.sign, a.m * b.m, a.e + b.e))

\* the least k <= 6 with den dividing 10^k, or -1
RECURSIVE TerminatesAt(_, _)
TerminatesAt(den, k) ==
    IF k > 6 THEN -1
    ELSE IF Pow10(k) % den = 0 THEN k
    ELSE TerminatesAt(den, k + 1)

\* const divide = (a, b = 1) => a / b
divide(a, b) ==
    IF a.kind = "nan" \/ b.kind = "nan" THEN NaN
    ELSE IF a.kind = "inf"
    THEN (IF b.kind = "inf" THEN NaN ELSE Inf(a.sign * b.sign))
    ELSE IF b.kind = "inf" THEN Fin(a.sign * b.sign, 0, 0)
    ELSE IF IsZero(b)
    THEN (IF IsZero(a) THEN NaN ELSE Inf(a.sign * b.sign))
    ELSE IF IsZero(a) THEN Fin(a.sign * b.sign, 0, 0)
    ELSE IF ~(Exact(a) /\ Exact(b)) THEN Undef
    ELSE LET num0 == a.m * Pow10(b.e)
             den0 == b.m * Pow10(a.e)
             g == GCD(num0, den0)
             num == num0 \div g
             den == den0 \div g
             k == IF den <= 1000000 THEN TerminatesAt(den, 0) ELSE -1
         IN  IF k = -1 \/ num > MaxMantissa
                \/ (Pow10(k) \div den) > MaxMantissa
             THEN Undef
             ELSE Keep(Fin(a.sign * b.sign, num * (Pow10(k) \div den), k))

\* s * (m * 10^(-e))^n for n >= 1 and m >= 2, or Undef beyond the bound
RECURSIVE PowNat(_, _, _, _, _)
PowNat(m, e, n, accM, accE) ==
    IF accM > MaxMantissa THEN Undef
    ELSE IF n = 0 THEN Fin(1, accM, accE)
    ELSE PowNat(m, e, n - 1, accM * m, accE + e)

\* const power = (a, b = 1) => Math.pow(a, b)
power(a, b) ==
    LET oddNeg == a.sign = -1 /\ IsOddInt(b)
        sg == IF oddNeg THEN -1 ELSE 1
    IN  IF b.kind = "nan" THEN NaN
        ELSE IF IsZero(b) THEN Fin(1, 1, 0)
        ELSE IF a.kind = "nan" THEN NaN
        ELSE IF b.kind = "inf"
        THEN (IF a.kind = "inf" \/ CmpAbsOne(a) = 1
              THEN (IF b.sign = 1 THEN Inf(1) ELSE Fin(1, 0, 0))
              ELSE IF CmpAbsOne(a) = 0 THEN NaN
              ELSE (IF b.sign = 1 THEN Fin(1, 0, 0) ELSE Inf(1)))
        ELSE IF a.kind = "inf"
        THEN (IF b.sign = 1 THEN Inf(sg) ELSE Fin(sg, 0, 0))
        ELSE IF IsZero(a)
        THEN (IF b.sign = 1 THEN Fin(sg, 0, 0) ELSE Inf(sg))
        ELSE IF a.sign = -1 /\ ~IsInt(b) THEN NaN
        ELSE IF CmpAbsOne(a) = 0 THEN Fin(sg, 1, 0)
        ELSE IF ~(Exact(a) /\ IsInt(b) /\ b.sign = 1) THEN Undef
        ELSE LET r == PowNat(a.m, a.e, b.m, 1, 0)
             IN  IF r.kind = "undef" THEN Undef ELSE Keep(Fin(sg, r.m, r.e))

\* the natural r with r * r = n, or -1
RECURSIVE ISqrt(_, _)
ISqrt(n, r) ==
    IF r * r = n THEN r ELSE IF r * r > n THEN -1 ELSE ISqrt(n, r + 1)

\* const sqrt = (a) => Math.sqrt(a)
sqrt(a) ==
    IF a.kind = "nan" THEN NaN
    ELSE IF IsZero(a) THEN a
    ELSE IF a.sign = -1 THEN NaN
    ELSE IF a.kind = "inf" THEN a
    ELSE IF ~Exact(a) THEN Undef
    ELSE LET m2 == IF a.e % 2 = 0 THEN a.m ELSE a.m * 10
             e2 == IF a.e % 2 = 0 THEN a.e ELSE a.e + 1
             r == ISqrt(m2, 0)
         IN  IF r = -1 THEN Undef ELSE Keep(Fin(1, r, e2 \div 2))

(***************************************************************************)
(* Validation (src/main.ts lines 10-24).  A call either returns a number   *)
(* or throws an Error with a message.                                      *)
(***************************************************************************)
Returned(v) == [threw |-> FALSE, value |-> v, message |-> ""]

Thrown(msg) == [threw |-> TRUE, value |-> Undef, message |-> msg]

\* the validate callback of safeDivide: the message it throws, "" for none
validateDivide(a, b) ==
    IF StrictEqualsZero(b) THEN "Cannot divide by zero" ELSE ""

\* the validate callback of safeSqrt
validateSqrt(a, b) ==
    IF LessThanZero(a) THEN "Negative number under root" ELSE ""

\* withValidation(operation, validate)(a, b): message is what validate(a, b)
\* throws ("" for nothing) and result what operation(a, b) returns
withValidation(message, result) ==
    IF message # "" THEN Thrown(message) ELSE Returned(result)

safeDivide(a, b) == withValidation(validateDivide(a, b), divide(a, b))

safeSqrt(a) == withValidation(validateSqrt(a, a), sqrt(a))

(***************************************************************************)
(* The operations the adapter hands to handleOperation (the `operations`   *)
(* and `operationSymbols` tables of the click listener).  "null" is the    *)
(* absent operation.  The symbols of multiply, divide and sqrt are written *)
(* "*", "/" and "r" here (the source has U+00D7, U+00F7 and U+221A).       *)
(***************************************************************************)
BinaryOperations == {"add", "subtract", "multiply", "divide", "power"}

Operations == BinaryOperations \cup {"sqrt"}

operationSymbols(name) ==
    CASE name = "add" -> "+"
      [] name = "subtract" -> "-"
      [] name = "multiply" -> "*"
      [] name = "divide" -> "/"
      [] name = "power" -> "^"
      [] name = "sqrt" -> "r"

\* const isUnary = ['sqrt'].includes(operation)
isUnaryOperation(name) == name = "sqrt"

\* operations[name](a, b)
Call(name, a, b) ==
    CASE name = "add" -> Returned(add(a, b))
      [] name = "subtract" -> Returned(subtract(a, b))
      [] name = "multiply" -> Returned(multiply(a, b))
      [] name = "divide" -> safeDivide(a, b)
      [] name = "power" -> Returned(power(a, b))
      [] name = "sqrt" -> safeSqrt(a)

\* operations[name](a): b is undefined and takes the default of the raw
\* operation (undefined === 0 is false, so validation of divide passes)
CallUnary(name, a) ==
    CASE name = "add" -> Returned(add(a, Fin(1, 0, 0)))
      [] name = "subtract" -> Returned(subtract(a, Fin(1, 0, 0)))
      [] name = "multiply" -> Returned(multiply(a, Fin(1, 1, 0)))
      [] name = "divide" -> Returned(divide(a, Fin(1, 1, 0)))
      [] name = "power" -> Returned(power(a, Fin(1, 1, 0)))
      [] name = "sqrt" -> safeSqrt(a)

(***************************************************************************)
(* State.  The six fields of the calculator: `state` (lines 36-42) and the *)
(* text of the #error element (setError); and the driver of the model:     *)
(* script is the scenario being replayed (empty when the adapter delivers  *)
(* arbitrary events) and pc the position of its next command.             *)
(***************************************************************************)
VARIABLES currentValue, previousValue, operation, shouldResetDisplay,
          currentExpression, errorText, script, pc

calc == <<currentValue, previousValue, operation, shouldResetDisplay,
          currentExpression, errorText>>

vars == <<currentValue, previousValue, operation, shouldResetDisplay,
          currentExpression, errorText, script, pc>>

(***************************************************************************)
(* The handlers of createCalculator.                                       *)
(***************************************************************************)
\* faulty variant: the test for a negative single digit is missing
handleBackspace_ignoresSign ==
    /\ currentValue' =
         IF Len(currentValue) = 1 THEN <<"0">>
         ELSE SliceDropLast(currentValue)
    /\ UNCHANGED <<previousValue, operation, shouldResetDisplay,
                   currentExpression, errorText>>

handleBackspace ==
    /\ currentValue' =
         IF Len(currentValue) = 1
            \/ (StartsWith(currentValue, "-") /\ Len(currentValue) = 2)
         THEN <<"0">>
         ELSE SliceDropLast(currentValue)
    /\ UNCHANGED <<previousValue, operation, shouldResetDisplay,
                   currentExpression, errorText>>

\* the currentValue that handleSign leaves when it finds v (lines 63-67)
signed(v) ==
    IF v # <<"0">>
    THEN (IF StartsWith(v, "-") THEN SliceFrom1(v) ELSE <<"-">> \o v)
    ELSE v

handleSign ==
    /\ currentValue' = signed(currentValue)
    /\ UNCHANGED <<previousValue, operation, shouldResetDisplay,
                   currentExpression, errorText>>

\* faulty variant: the failure path clears the pending operation as success does
performOperationCatch_clearsPending(message) ==
    /\ errorText' = message
    /\ shouldResetDisplay' = TRUE
    /\ previousValue' = Null
    /\ operation' = "null"
    /\ UNCHANGED <<currentValue, currentExpression>>

\* the catch block of performOperation (lines 94-97)
performOperationCatch(message) ==
    /\ errorText' = message
    /\ shouldResetDisplay' = TRUE
    /\ UNCHANGED <<currentValue, previousValue, operation, currentExpression>>

\* faulty variant: clearError() is not called after a successful evaluation
performOperationTry_keepsError ==
    LET current == parseFloat(currentValue)
        call == Call(operation, previousValue, current)
    IN  IF call.threw
        THEN performOperationCatch(call.message)
        ELSE /\ call.value.kind # "undef"
             /\ currentValue' = toString(call.value)
             /\ previousValue' = Null
             /\ operation' = "null"
             /\ shouldResetDisplay' = TRUE
             /\ currentExpression' =
                  currentExpression \o <<" ">> \o toString(current)
                  \o <<" ", "=">>
             /\ UNCHANGED errorText

\* faulty variant: a successful evaluation leaves the operation pending
performOperationTry_keepsPending ==
    LET current == parseFloat(currentValue)
        call == Call(operation, previousValue, current)
    IN  IF call.threw
        THEN performOperationCatch(call.message)
        ELSE /\ call.value.kind # "undef"
             /\ currentValue' = toString(call.value)
             /\ shouldResetDisplay' = TRUE
             /\ currentExpression' =
                  currentExpression \o <<" ">> \o toString(current)
                  \o <<" ", "=">>
             /\ errorText' = ""
             /\ UNCHANGED <<previousValue, operation>>

\* the try block of performOperation (lines 82-93)
performOperationTry ==
    LET current == parseFloat(currentValue)
        call == Call(operation, previousValue, current)
    IN  IF call.threw
        THEN performOperationCatch(call.message)
        ELSE /\ call.value.kind # "undef"
             /\ currentValue' = toString(call.value)
             /\ previousValue' = Null
             /\ operation' = "null"
             /\ shouldResetDisplay' = TRUE
             /\ currentExpression' =
                  currentExpression \o <<" ">> \o toString(current)
                  \o <<" ", "=">>
             /\ errorText' = ""

\* faulty variant: the early return is missing, so calling the absent operation
\* throws a TypeError that the catch block reports
performOperation_noEarlyReturn ==
    IF operation = "null" \/ previousValue.kind = "null"
    THEN performOperationCatch("state.operation is not a function")
    ELSE performOperationTry

performOperation ==
    IF operation = "null" \/ previousValue.kind = "null"
    THEN UNCHANGED calc
    ELSE performOperationTry

\* faulty variant: a trace that ends with "=" also starts a fresh number
handleNumber_readsTrace(value) ==
    /\ IF shouldResetDisplay
          \/ (currentExpression # <<>>
              /\ currentExpression[Len(currentExpression)] = "=")
       THEN /\ currentValue' = <<value>>
            /\ shouldResetDisplay' = FALSE
       ELSE /\ currentValue' =
                 IF currentValue = <<"0">> THEN <<value>>
                 ELSE currentValue \o <<value>>
            /\ UNCHANGED shouldResetDisplay
    /\ UNCHANGED <<previousValue, operation, currentExpression, errorText>>

\* faulty variant: typing clears the error message
handleNumber_clearsError(value) ==
    /\ IF shouldResetDisplay
       THEN /\ currentValue' = <<value>>
            /\ shouldResetDisplay' = FALSE
       ELSE /\ currentValue' =
                 IF currentValue = <<"0">> THEN <<value>>
                 ELSE currentValue \o <<value>>
            /\ UNCHANGED shouldResetDisplay
    /\ errorText' = ""
    /\ UNCHANGED <<previousValue, operation, currentExpression>>

\* faulty variant: the flag is cleared but the old text is kept
handleNumber_keepsText(value) ==
    /\ currentValue' =
         IF currentValue = <<"0">> THEN <<value>>
         ELSE currentValue \o <<value>>
    /\ shouldResetDisplay' = FALSE
    /\ UNCHANGED <<previousValue, operation, currentExpression, errorText>>

handleNumber(value) ==
    /\ IF shouldResetDisplay
       THEN /\ currentValue' = <<value>>
            /\ shouldResetDisplay' = FALSE
       ELSE /\ currentValue' =
                 IF currentValue = <<"0">> THEN <<value>>
                 ELSE currentValue \o <<value>>
            /\ UNCHANGED shouldResetDisplay
    /\ UNCHANGED <<previousValue, operation, currentExpression, errorText>>

\* faulty variant: the catch block reports the error and leaves the state as it is
handleOperationCatch_keepsFlag(message) ==
    /\ errorText' = message
    /\ UNCHANGED <<currentValue, previousValue, operation, shouldResetDisplay,
                   currentExpression>>

\* the catch block of handleOperation (lines 144-147)
handleOperationCatch(message) ==
    /\ shouldResetDisplay' = TRUE
    /\ errorText' = message
    /\ UNCHANGED <<currentValue, previousValue, operation, currentExpression>>

\* faulty variant: chaining evaluates the pressed operator, not the pending one
handleOperationChain_pressedOperator(op, opSymbol) ==
    LET currentNum == parseFloat(currentValue)
        call == Call(op, previousValue, currentNum)
    IN  IF call.threw
        THEN handleOperationCatch(call.message)
        ELSE /\ call.value.kind # "undef"
             /\ currentValue' = toString(call.value)
             /\ previousValue' = call.value
             /\ operation' = op
             /\ currentExpression' =
                  currentExpression \o <<" ">> \o toString(currentNum)
                  \o <<" ", opSymbol>>
             /\ shouldResetDisplay' = TRUE
             /\ errorText' = ""

\* the chaining branch of handleOperation (lines 115-124, 142-143)
handleOperationChain(op, opSymbol) ==
    LET currentNum == parseFloat(currentValue)
        call == Call(operation, previousValue, currentNum)
    IN  IF call.threw
        THEN handleOperationCatch(call.message)
        ELSE /\ operation' = op
             /\ call.value.kind # "undef"
             /\ currentValue' = toString(call.value)
             /\ previousValue' = call.value
             /\ currentExpression' =
                  currentExpression \o <<" ">> \o toString(currentNum)
                  \o <<" ", opSymbol>>
             /\ shouldResetDisplay' = TRUE
             /\ errorText' = ""

\* faulty variant: the unary operator becomes the pending operation
handleOperationUnary_storesOperator(op, opSymbol) ==
    LET call == CallUnary(op, parseFloat(currentValue))
    IN  IF call.threw
        THEN handleOperationCatch(call.message)
        ELSE /\ call.value.kind # "undef"
             /\ currentValue' = toString(call.value)
             /\ shouldResetDisplay' = TRUE
             /\ currentExpression' =
                  <<opSymbol, "(">> \o currentValue \o <<")">>
             /\ errorText' = ""
             /\ operation' = op
             /\ UNCHANGED previousValue

\* the unary branch of handleOperation (lines 126-132, 142-143)
handleOperationUnary(op, opSymbol) ==
    LET call == CallUnary(op, parseFloat(currentValue))
    IN  IF call.threw
        THEN handleOperationCatch(call.message)
        ELSE /\ call.value.kind # "undef"
             /\ currentValue' = toString(call.value)
             /\ shouldResetDisplay' = TRUE
             /\ currentExpression' =
                  <<opSymbol, "(">> \o currentValue \o <<")">>
             /\ errorText' = ""
             /\ UNCHANGED <<previousValue, operation>>

\* faulty variant: the symbol is appended to the trace, which is not restarted
handleOperationFirst_appends(op, opSymbol) ==
    /\ previousValue' = parseFloat(currentValue)
    /\ operation' = op
    /\ shouldResetDisplay' = TRUE
    /\ currentExpression' = currentExpression \o <<" ", opSymbol>>
    /\ errorText' = ""
    /\ UNCHANGED currentValue

\* faulty variant: the pressed operator is stored without its left operand
handleOperationFirst_noPreviousValue(op, opSymbol) ==
    /\ operation' = op
    /\ shouldResetDisplay' = TRUE
    /\ currentExpression' = currentValue \o <<" ", opSymbol>>
    /\ errorText' = ""
    /\ UNCHANGED <<currentValue, previousValue>>

\* the last branch of handleOperation (lines 134-140, 142-143)
handleOperationFirst(op, opSymbol) ==
    /\ operation' = op
    /\ previousValue' = parseFloat(currentValue)
    /\ shouldResetDisplay' = TRUE
    /\ currentExpression' = currentValue \o <<" ", opSymbol>>
    /\ errorText' = ""
    /\ UNCHANGED currentValue

\* faulty variant: the chaining condition does not test shouldResetDisplay
handleOperation_chainsWithoutOperand(op, opSymbol, isUnary) ==
    IF ~isUnary /\ previousValue.kind # "null" /\ operation # "null"
    THEN handleOperationChain(op, opSymbol)
    ELSE IF isUnary THEN handleOperationUnary(op, opSymbol)
    ELSE handleOperationFirst(op, opSymbol)

handleOperation(op, opSymbol, isUnary) ==
    IF ~isUnary /\ previousValue.kind # "null" /\ operation # "null"
       /\ ~shouldResetDisplay
    THEN handleOperationChain(op, opSymbol)
    ELSE IF isUnary THEN handleOperationUnary(op, opSymbol)
    ELSE handleOperationFirst(op, opSymbol)

\* faulty variant: clearError() is not called
handleClear_keepsError ==
    /\ currentValue' = <<"0">>
    /\ previousValue' = Null
    /\ operation' = "null"
    /\ shouldResetDisplay' = FALSE
    /\ currentExpression' = <<>>
    /\ UNCHANGED errorText

handleClear ==
    /\ currentValue' = <<"0">>
    /\ previousValue' = Null
    /\ operation' = "null"
    /\ shouldResetDisplay' = FALSE
    /\ currentExpression' = <<>>
    /\ errorText' = ""

\* the digit branch of handleKeyPress (lines 168-173)
handleKeyPress(key) ==
    IF key = "." /\ Includes(currentValue, ".") THEN UNCHANGED calc
    ELSE handleNumber(key)

(***************************************************************************)
(* The driver.  Free mode (script empty): the adapter delivers any event,  *)
(* digits drawn from DigitKeys, within the bounds.  Scenario mode: the     *)
(* commands of one script are run in order from the constructed state.     *)
(***************************************************************************)
\* the digit keys and digit buttons pressed in free mode
DigitKeys == {"0", "5", "."}

\* the operation buttons pressed in free mode
OperationKeys == {"divide", "sqrt"}

Digit(d) == [cmd |-> "digit", arg |-> d]
Op(name) == [cmd |-> "operation", arg |-> name]
Equals == [cmd |-> "equals", arg |-> ""]
Sign == [cmd |-> "sign", arg |-> ""]
Backspace == [cmd |-> "backspace", arg |-> ""]
Clear == [cmd |-> "clear", arg |-> ""]

\* the operators of the chaining scenarios
ChainOperations == {"add", "subtract", "multiply"}

\* a, o1, b, o2, c, = for all digits and the chaining operators
ChainScripts ==
    {<<Digit(a), Op(o1), Digit(b), Op(o2), Digit(c), Equals>> :
        a \in Digits, b \in Digits, c \in Digits,
        o1 \in ChainOperations, o2 \in ChainOperations}

\* the other scenarios of the specification's section 8
FixedScripts ==
    { <<Digit("5"), Op("divide"), Digit("0"), Equals>>,
      <<Digit("4"), Sign, Op("sqrt")>>,
      <<Digit("7"), Backspace>>,
      <<Digit("7"), Sign, Backspace>>,
      <<Digit("1"), Digit("2"), Backspace>>,
      <<Digit("5"), Op("divide"), Digit("0"), Op("add")>>,
      <<Digit("5"), Op("divide"), Digit("0"), Equals, Clear>>,
      <<Digit("5"), Op("add"), Digit("3"), Equals, Equals>>,
      <<Digit("0"), Op("power"), Digit("1"), Sign, Equals>>,
      <<Digit("."), Digit("5"), Op("add"), Digit("0"), Equals, Sign,
        Backspace, Backspace, Sign, Sign>>,
      <<Digit("1"), Op("divide"), Digit("2"), Op("power"), Digit("4"),
        Op("sqrt"), Equals>>,
      <<Digit("5"), Op("add"), Digit("3"), Equals, Op("multiply"),
        Digit("2"), Equals>>,
      <<Digit("5"), Op("divide"), Digit("0"), Equals, Digit("5"), Equals>>,
      <<Digit("5"), Op("add"), Op("multiply"), Digit("2"), Equals>> }

Scripts == ChainScripts \cup FixedScripts

\* createCalculator (lines 36-42); the #error element starts empty
Init ==
    /\ currentValue = <<"0">>
    /\ previousValue = Null
    /\ operation = "null"
    /\ shouldResetDisplay = FALSE
    /\ currentExpression = <<>>
    /\ errorText = ""
    /\ script \in Scripts \cup {<<>>}
    /\ pc = 1

FreeMode == script = <<>>

\* the bound of the text in free mode: a digit or a sign extends it up to
\* MaxLen characters
TextWithinBound ==
    Len(currentValue') <= MaxLen \/ Len(currentValue') <= Len(currentValue)

\* the bound of the trace in free mode: it is built up to MaxExprLen
ExpressionWithinBound ==
    \/ Len(currentExpression') <= MaxExprLen
    \/ Len(currentExpression') <= Len(currentExpression)

\* click on a [data-value] button (lines 213-218)
ClickDigit ==
    /\ FreeMode
    /\ \E d \in DigitKeys : handleNumber(d)
    /\ TextWithinBound
    /\ UNCHANGED <<script, pc>>

\* keydown of a digit key or "." (lines 164-173)
KeyDigit ==
    /\ FreeMode
    /\ \E key \in DigitKeys : handleKeyPress(key)
    /\ TextWithinBound
    /\ UNCHANGED <<script, pc>>

\* click on a [data-operation] button that names an operation (lines 261-262)
ClickOperation ==
    /\ FreeMode
    /\ \E name \in OperationKeys :
          handleOperation(name, operationSymbols(name), isUnaryOperation(name))
    /\ ExpressionWithinBound
    /\ UNCHANGED <<script, pc>>

\* click on the equals button (lines 246-249)
ClickEquals ==
    /\ FreeMode
    /\ performOperation
    /\ ExpressionWithinBound
    /\ UNCHANGED <<script, pc>>

\* click on the backspace button (lines 251-254)
ClickBackspace ==
    /\ FreeMode
    /\ handleBackspace
    /\ UNCHANGED <<script, pc>>

\* click on the sign button (lines 256-259)
ClickSign ==
    /\ FreeMode
    /\ handleSign
    /\ TextWithinBound
    /\ UNCHANGED <<script, pc>>

\* click on the clear button (lines 241-244)
ClickClear ==
    /\ FreeMode
    /\ handleClear
    /\ UNCHANGED <<script, pc>>

\* the command c, as the click listener dispatches it
Run(c) ==
    CASE c.cmd = "digit" -> handleNumber(c.arg)
      [] c.cmd = "operation" ->
           handleOperation(c.arg, operationSymbols(c.arg), isUnaryOperation(c.arg))
      [] c.cmd = "equals" -> performOperation
      [] c.cmd = "sign" -> handleSign
      [] c.cmd = "backspace" -> handleBackspace
      [] c.cmd = "clear" -> handleClear

\* the next command of the scenario
ScenarioStep ==
    /\ pc <= Len(script)
    /\ Run(script[pc])
    /\ pc' = pc + 1
    /\ UNCHANGED script

\* the step just taken delivered the command c
Took(c) ==
    IF FreeMode THEN Run(c) /\ UNCHANGED <<script, pc>>
    ELSE ScenarioStep /\ script[pc] = c

Next ==
    \/ ClickDigit
    \/ KeyDigit
    \/ ClickOperation
    \/ ClickEquals
    \/ ClickBackspace
    \/ ClickSign
    \/ ClickClear
    \/ ScenarioStep

Spec == Init /\ [][Next]_vars

(***************************************************************************)
(* Properties.                                                             *)
(***************************************************************************)
Txt0 == <<"0">>
Five == Fin(1, 5, 0)

\* the chaining condition of ApplyBinaryOperator
Chaining ==
    previousValue.kind # "null" /\ operation # "null" /\ ~shouldResetDisplay

\* the script a, add, b, multiply, c, = has been run to its end
AddMultiplyDone ==
    /\ script \in ChainScripts
    /\ script[2] = Op("add")
    /\ script[4] = Op("multiply")
    /\ pc = 7

\* C1, the rule: a binary operator pressed while an operation is pending and
\* shouldResetDisplay is false, and whose evaluation does not fail, evaluates
\* the PENDING operator on (previousValue, numeric currentValue); the result
\* becomes currentValue (as text) and previousValue, the pressed operator
\* becomes the pending one and shouldResetDisplay becomes true.
C1_ChainingRule ==
    \A name \in BinaryOperations :
        (Chaining /\ Took(Op(name))
         /\ ~Call(operation, previousValue, parseFloat(currentValue)).threw)
        => LET result == Call(operation, previousValue,
                              parseFloat(currentValue)).value
           IN  /\ currentValue' = toString(result)
               /\ previousValue' = result
               /\ operation' = name
               /\ shouldResetDisplay' = TRUE

\* C1, the consequence: a, add, b, multiply, c, = from the constructed state
\* ends with currentValue the text of (a + b) * c ("16" for 5, 3, 2).
C1_ChainingResult ==
    AddMultiplyDone =>
        currentValue = NatToStr((DigitVal(script[1].arg) + DigitVal(script[3].arg))
                                * DigitVal(script[5].arg))

\* C1: operator chaining evaluates the pending operator, and 5 + 3 * 2 =
\* therefore shows 16, (a + b) * c in general.
C1_Chaining == [][C1_ChainingRule]_vars /\ [](C1_ChainingResult)

C1_Witness ==
    /\ AddMultiplyDone
    /\ script[1] = Digit("5") /\ script[3] = Digit("3") /\ script[5] = Digit("2")
    /\ currentValue = <<"1", "6">>

\* C2: Equals with pending divide and numeric currentValue 0 sets the error
\* message "Cannot divide by zero", leaves currentValue, previousValue,
\* operation and currentExpression unchanged and sets shouldResetDisplay.
C2_EqualsFailureRetains ==
    [][(operation = "divide" /\ previousValue.kind # "null"
        /\ IsZero(parseFloat(currentValue)) /\ Took(Equals))
       => (/\ errorText' = "Cannot divide by zero"
           /\ currentValue' = currentValue
           /\ previousValue' = previousValue
           /\ operation' = operation
           /\ currentExpression' = currentExpression
           /\ shouldResetDisplay' = TRUE)]_vars

C2_Witness ==
    /\ script = <<Digit("5"), Op("divide"), Digit("0"), Equals>>
    /\ pc = 5
    /\ errorText = "Cannot divide by zero"
    /\ currentValue = Txt0
    /\ previousValue = Five
    /\ operation = "divide"
    /\ shouldResetDisplay

\* the validation failures of ApplyBinaryOperator(name): sqrt of a negative
\* currentValue, or chaining over a pending divide with numeric currentValue 0
SqrtFails(name) == name = "sqrt" /\ LessThanZero(parseFloat(currentValue))

ChainFails(name) ==
    /\ name \in BinaryOperations
    /\ Chaining
    /\ operation = "divide"
    /\ IsZero(parseFloat(currentValue))

\* C3: ApplyBinaryOperator that fails validation leaves currentValue,
\* previousValue, operation and currentExpression as they were (the pressed
\* operator does not become the pending one), sets shouldResetDisplay and
\* sets the error message of the failure.
C3_OperatorFailureRollsBack ==
    [][\A name \in Operations :
        ((SqrtFails(name) \/ ChainFails(name)) /\ Took(Op(name)))
        => (/\ currentValue' = currentValue
            /\ previousValue' = previousValue
            /\ operation' = operation
            /\ currentExpression' = currentExpression
            /\ shouldResetDisplay' = TRUE
            /\ errorText' = IF SqrtFails(name)
                            THEN "Negative number under root"
                            ELSE "Cannot divide by zero")]_vars

C3_Witness ==
    /\ script = <<Digit("5"), Op("divide"), Digit("0"), Op("add")>>
    /\ pc = 5
    /\ operation = "divide"
    /\ previousValue = Five
    /\ currentValue = Txt0
    /\ shouldResetDisplay
    /\ errorText = "Cannot divide by zero"

\* the identity state of the calculator, with no error shown
IdentityState ==
    /\ currentValue = Txt0
    /\ previousValue = Null
    /\ operation = "null"
    /\ shouldResetDisplay = FALSE
    /\ currentExpression = <<>>
    /\ errorText = ""

\* C4: Clear, in any reachable state, produces exactly the identity state
\* with an empty error message.
C4_ClearRestoresIdentity == [][Took(Clear) => IdentityState']_vars

C4_Witness ==
    /\ script = <<Digit("5"), Op("divide"), Digit("0"), Equals, Clear>>
    /\ pc = 6
    /\ IdentityState

\* C5: operation and previousValue are both absent or both present.
C5_OperationAndPreviousTogether ==
    (operation = "null") <=> (previousValue.kind = "null")

C5_Witness ==
    /\ FreeMode
    /\ operation = "divide"
    /\ previousValue = NaN
    /\ errorText = "Negative number under root"

\* s is a numeric literal: an optional leading "-", then digits with at most
\* one "." and at least one digit
IsNumericLiteral(s) ==
    LET body == IF StartsWith(s, "-") THEN SliceFrom1(s) ELSE s
    IN  /\ \A i \in 1..Len(body) : IsDigit(body[i]) \/ body[i] = "."
        /\ Cardinality({i \in 1..Len(body) : body[i] = "."}) <= 1
        /\ \E i \in 1..Len(body) : IsDigit(body[i])

\* C6: currentValue is always a non-empty valid numeric literal.
C6_CurrentValueIsNumericLiteral == IsNumericLiteral(currentValue)

\* C7: with shouldResetDisplay false, InputDigit on "0" leaves "0" for '0',
\* yields "d" for a non-zero digit d and "0." for '.'; on any other
\* currentValue the character is appended.
C7_ConcatenationRule ==
    [][\A d \in Digits \cup {"."} :
        (~shouldResetDisplay /\ Took(Digit(d)))
        => currentValue' =
             IF currentValue = Txt0
             THEN (IF d = "." THEN <<"0", ".">> ELSE <<d>>)
             ELSE currentValue \o <<d>>]_vars

\* C8: ToggleSign applied twice to a reachable currentValue other than "0"
\* returns it, and ToggleSign leaves "0".
C8_ToggleSignSelfInverse ==
    /\ currentValue # Txt0 => signed(signed(currentValue)) = currentValue
    /\ signed(Txt0) = Txt0

\* C9: Backspace turns a currentValue of one character, or of two that
\* starts with "-", into "0" and otherwise drops its last character;
\* previousValue, operation, currentExpression and shouldResetDisplay are
\* unchanged.
C9_Backspace ==
    [][Took(Backspace)
       => (/\ currentValue' =
                IF Len(currentValue) = 1
                   \/ (Len(currentValue) = 2 /\ Head(currentValue) = "-")
                THEN Txt0
                ELSE [i \in 1..(Len(currentValue) - 1) |-> currentValue[i]]
           /\ previousValue' = previousValue
           /\ operation' = operation
           /\ currentExpression' = currentExpression
           /\ shouldResetDisplay' = shouldResetDisplay)]_vars

C9_Witness ==
    /\ script = <<Digit("7"), Sign, Backspace>>
    /\ pc = 4
    /\ currentValue = Txt0

\* C10: Equals with no operation pending changes no field of the state.
C10_EqualsWithoutOperationIsNoOp ==
    [][(operation = "null" /\ Took(Equals))
       => (/\ currentValue' = currentValue
           /\ previousValue' = previousValue
           /\ operation' = operation
           /\ shouldResetDisplay' = shouldResetDisplay
           /\ currentExpression' = currentExpression)]_vars

C10_Witness ==
    /\ script = <<Digit("5"), Op("add"), Digit("3"), Equals, Equals>>
    /\ pc = 6
    /\ currentValue = <<"8">>
    /\ operation = "null"
    /\ shouldResetDisplay

\* the number of "." characters of currentValue
DecimalPoints == Cardinality({i \in 1..Len(currentValue) : currentValue[i] = "."})

\* C11: on the keyboard path and on the digit-button path a "." is
\* suppressed when currentValue already contains one, so currentValue never
\* contains two "." characters.
C11_AtMostOneDecimalPoint == DecimalPoints <= 1

\* an operation is pending
Pending == operation # "null" /\ previousValue.kind # "null"

\* C12: Equals with an operation pending and validation passing makes
\* currentValue the text of pendingOp(previousValue, numeric currentValue),
\* makes previousValue and operation absent, sets shouldResetDisplay, clears
\* the error message and makes currentExpression the old expression followed
\* by " <currentNum> =".
C12_EqualsSuccess ==
    [][(Pending /\ Took(Equals)
        /\ ~Call(operation, previousValue, parseFloat(currentValue)).threw)
       => (/\ currentValue' =
                toString(Call(operation, previousValue,
                              parseFloat(currentValue)).value)
           /\ previousValue' = Null
           /\ operation' = "null"
           /\ shouldResetDisplay' = TRUE
           /\ errorText' = ""
           /\ currentExpression' =
                currentExpression \o <<" ">>
                \o toString(parseFloat(currentValue)) \o <<" ", "=">>)]_vars

C12_Witness ==
    /\ script = <<Digit("5"), Op("add"), Digit("3"), Equals, Equals>>
    /\ pc = 5
    /\ currentValue = <<"8">>
    /\ previousValue = Null
    /\ operation = "null"
    /\ shouldResetDisplay
    /\ currentExpression = <<"5", " ", "+", " ", "3", " ", "=">>
    /\ errorText = ""

\* C13: a binary operator pressed when the chaining condition is not met
\* makes previousValue the numeric value of currentValue, makes the pressed
\* operator the pending one, sets shouldResetDisplay, leaves currentValue
\* and makes currentExpression the old expression with " <symbol>" appended.
C13_FirstOperatorAppends ==
    [][\A name \in BinaryOperations :
        (~Chaining /\ Took(Op(name)))
        => (/\ previousValue' = parseFloat(currentValue)
            /\ operation' = name
            /\ shouldResetDisplay' = TRUE
            /\ currentValue' = currentValue
            /\ currentExpression' =
                 currentExpression \o <<" ", operationSymbols(name)>>)]_vars

\* C13, amended: a binary operator pressed when the chaining condition is
\* not met makes previousValue the numeric value of currentValue, makes the
\* pressed operator the pending one, sets shouldResetDisplay, leaves
\* currentValue and makes currentExpression "<currentValue> <symbol>": the
\* prior expression text is discarded.
C13_FirstOperatorRestartsTrace ==
    [][\A name \in BinaryOperations :
        (~Chaining /\ Took(Op(name)))
        => (/\ previousValue' = parseFloat(currentValue)
            /\ operation' = name
            /\ shouldResetDisplay' = TRUE
            /\ currentValue' = currentValue
            /\ currentExpression' =
                 currentValue \o <<" ", operationSymbols(name)>>)]_vars

C13_Witness ==
    /\ script = <<Digit("5"), Op("add"), Digit("3"), Equals, Op("multiply"),
                  Digit("2"), Equals>>
    /\ pc = 6
    /\ currentValue = <<"8">>
    /\ previousValue = Fin(1, 8, 0)
    /\ operation = "multiply"
    /\ shouldResetDisplay
    /\ currentExpression = <<"8", " ", "*">>

\* C14: sqrt on a non-negative currentValue makes currentValue the result,
\* sets shouldResetDisplay, replaces currentExpression by
\* "<symbol>(<previous currentValue>)" and leaves previousValue and
\* operation, also when a binary operation is pending and a fresh operand
\* was just typed.
C14_UnaryLeavesPending ==
    [][(~LessThanZero(parseFloat(currentValue)) /\ Took(Op("sqrt")))
       => (/\ currentValue' = toString(sqrt(parseFloat(currentValue)))
           /\ shouldResetDisplay' = TRUE
           /\ currentExpression' =
                <<operationSymbols("sqrt"), "(">> \o currentValue \o <<")">>
           /\ previousValue' = previousValue
           /\ operation' = operation)]_vars

\* 1 / 2 ^ 4, then sqrt: the pending power is kept and 0.5 stays its left
\* operand
C14_Witness ==
    /\ script = <<Digit("1"), Op("divide"), Digit("2"), Op("power"),
                  Digit("4"), Op("sqrt"), Equals>>
    /\ pc = 7
    /\ currentValue = <<"2">>
    /\ previousValue = Fin(1, 5, 1)
    /\ operation = "power"
    /\ shouldResetDisplay
    /\ currentExpression = <<"r", "(", "4", ")">>

\* C15: InputDigit(d) with shouldResetDisplay true makes currentValue
\* exactly d and clears shouldResetDisplay; InputDigit always leaves
\* previousValue, operation and currentExpression.
C15_InputDigitStartsAfresh ==
    [][\A d \in Digits \cup {"."} :
        Took(Digit(d))
        => (/\ shouldResetDisplay
                => (currentValue' = <<d>> /\ shouldResetDisplay' = FALSE)
            /\ previousValue' = previousValue
            /\ operation' = operation
            /\ currentExpression' = currentExpression)]_vars

\* 5, add, multiply, then 2: the text "5" is discarded
C15_Witness ==
    /\ script = <<Digit("5"), Op("add"), Op("multiply"), Digit("2"), Equals>>
    /\ pc = 5
    /\ currentValue = <<"2">>
    /\ ~shouldResetDisplay
    /\ previousValue = Five
    /\ operation = "multiply"
    /\ currentExpression = <<"5", " ", "*">>

\* the commands the driver can deliver in the current state: any event of
\* free mode, or the next command of the script
Deliverable ==
    IF FreeMode
    THEN {Digit(d) : d \in DigitKeys} \cup {Op(name) : name \in OperationKeys}
         \cup {Equals, Sign, Backspace, Clear}
    ELSE IF pc <= Len(script) THEN {script[pc]} ELSE {}

\* what a command leaves: the four logic fields and its error outcome
\* ("unchanged", "" for cleared, or the message set)
Outcome(cv, pv, op, flag, error) ==
    [currentValue |-> cv, previousValue |-> pv, operation |-> op,
     shouldResetDisplay |-> flag, error |-> error]

\* a failed evaluation inside an operator press or an Equals
FailureOutcome(message) ==
    Outcome(currentValue, previousValue, operation, TRUE, message)

\* the outcome of the command c, written over currentValue, previousValue,
\* operation and shouldResetDisplay alone
OutcomeOf(c) ==
    CASE c.cmd = "digit" ->
           Outcome(IF shouldResetDisplay \/ currentValue = Txt0 THEN <<c.arg>>
                   ELSE currentValue \o <<c.arg>>,
                   previousValue, operation, FALSE, "unchanged")
      [] c.cmd = "operation" ->
           IF c.arg # "sqrt" /\ Chaining
           THEN LET call == Call(operation, previousValue,
                                 parseFloat(currentValue))
                IN  IF call.threw THEN FailureOutcome(call.message)
                    ELSE Outcome(toString(call.value), call.value, c.arg,
                                 TRUE, "")
           ELSE IF c.arg = "sqrt"
           THEN LET call == safeSqrt(parseFloat(currentValue))
                IN  IF call.threw THEN FailureOutcome(call.message)
                    ELSE Outcome(toString(call.value), previousValue,
                                 operation, TRUE, "")
           ELSE Outcome(currentValue, parseFloat(currentValue), c.arg,
                        TRUE, "")
      [] c.cmd = "equals" ->
           IF ~Pending
           THEN Outcome(currentValue, previousValue, operation,
                        shouldResetDisplay, "unchanged")
           ELSE LET call == Call(operation, previousValue,
                                 parseFloat(currentValue))
                IN  IF call.threw THEN FailureOutcome(call.message)
                    ELSE Outcome(toString(call.value), Null, "null", TRUE, "")
      [] c.cmd = "sign" ->
           Outcome(signed(currentValue), previousValue, operation,
                   shouldResetDisplay, "unchanged")
      [] c.cmd = "backspace" ->
           Outcome(IF Len(currentValue) = 1
                      \/ (Len(currentValue) = 2 /\ Head(currentValue) = "-")
                   THEN Txt0 ELSE SliceDropLast(currentValue),
                   previousValue, operation, shouldResetDisplay, "unchanged")
      [] c.cmd = "clear" -> Outcome(Txt0, Null, "null", FALSE, "")

\* C16: currentExpression never influences logic.  What a command leaves in
\* currentValue, previousValue, operation and shouldResetDisplay, and its
\* error outcome, is a function of the command and of these four fields
\* before it; so two states that agree on them and differ in
\* currentExpression agree again after any command.
C16_ExpressionNeverRead ==
    [][\A c \in Deliverable :
        Took(c)
        => LET o == OutcomeOf(c)
           IN  /\ currentValue' = o.currentValue
               /\ previousValue' = o.previousValue
               /\ operation' = o.operation
               /\ shouldResetDisplay' = o.shouldResetDisplay
               /\ errorText' = IF o.error = "unchanged" THEN errorText
                               ELSE o.error]_vars

\* 5 + 3 = * 2 = ends as 5 + 3 * 2 = does (C1_Witness) though the two runs
\* differ in currentExpression from the fifth command on
C16_Witness ==
    /\ script = <<Digit("5"), Op("add"), Digit("3"), Equals, Op("multiply"),
                  Digit("2"), Equals>>
    /\ pc = 8
    /\ currentValue = <<"1", "6">>
    /\ previousValue = Null
    /\ operation = "null"
    /\ shouldResetDisplay
    /\ errorText = ""
    /\ currentExpression = <<"8", " ", "*", " ", "2", " ", "=">>

\* the state left by the division-by-zero Equals of 5 / 0 =
AfterFailedEquals ==
    /\ operation = "divide"
    /\ previousValue.kind = "fin"
    /\ shouldResetDisplay
    /\ errorText = "Cannot divide by zero"

\* a new operand other than zero has been typed over the failed one
OperandRetyped ==
    /\ operation = "divide"
    /\ previousValue.kind = "fin"
    /\ ~shouldResetDisplay
    /\ ~IsZero(parseFloat(currentValue))
    /\ parseFloat(currentValue).kind = "fin"

\* C17, first step: InputDigit after the failed Equals keeps the pending
\* divide and its left operand and starts the new operand.
C17_RetypeKeepsPending ==
    \A d \in Digits :
        (AfterFailedEquals /\ Took(Digit(d)))
        => (/\ currentValue' = <<d>>
            /\ previousValue' = previousValue
            /\ operation' = operation
            /\ shouldResetDisplay' = FALSE)

\* C17, second step: Equals on the retained divide with a non-zero operand
\* succeeds, shows previousValue divided by the operand, clears operation,
\* previousValue and the error message.
C17_SecondEqualsSucceeds ==
    (OperandRetyped /\ Took(Equals))
    => (/\ currentValue' =
             toString(divide(previousValue, parseFloat(currentValue)))
        /\ previousValue' = Null
        /\ operation' = "null"
        /\ errorText' = "")

\* C17: after a division-by-zero Equals, typing a non-zero operand and
\* pressing Equals again divides the retained left operand by it, clears
\* operation and previousValue and clears the error message (5 / 0 = 5 =
\* shows 1).
C17_RecoverableAfterFailedEquals ==
    /\ [][C17_RetypeKeepsPending]_vars
    /\ [][C17_SecondEqualsSucceeds]_vars
    /\ []((script = <<Digit("5"), Op("divide"), Digit("0"), Equals,
                      Digit("5"), Equals>> /\ pc = 7)
          => (currentValue = <<"1">> /\ errorText = ""
              /\ operation = "null" /\ previousValue = Null))

C17_Witness ==
    /\ script = <<Digit("5"), Op("divide"), Digit("0"), Equals, Digit("5"),
                  Equals>>
    /\ pc = 7
    /\ currentValue = <<"1">>
    /\ previousValue = Null
    /\ operation = "null"
    /\ errorText = ""
    /\ currentExpression = <<"5", " ", "/", " ", "5", " ", "=">>

\* an operation is pending and no operand has been typed since
PendingNoOperand == Pending /\ shouldResetDisplay

\* C18, the rule: a binary operator pressed while an operation is pending
\* and shouldResetDisplay is true does not evaluate the pending operator; it
\* replaces operation by the pressed operator, re-reads previousValue from
\* currentValue, leaves currentValue and reports no error.
C18_OperatorReplacedRule ==
    \A name \in BinaryOperations :
        (PendingNoOperand /\ Took(Op(name)))
        => (/\ operation' = name
            /\ previousValue' = parseFloat(currentValue)
            /\ currentValue' = currentValue
            /\ shouldResetDisplay' = TRUE
            /\ errorText' = "")

\* C18: a binary operator pressed before a new operand is typed only
\* replaces the pending operator and can not fail validation; 5, add,
\* multiply, 2, Equals therefore shows 10.
C18_OperatorReplacedWithoutOperand ==
    /\ [][C18_OperatorReplacedRule]_vars
    /\ []((script = <<Digit("5"), Op("add"), Op("multiply"), Digit("2"),
                      Equals>> /\ pc = 6)
          => currentValue = <<"1", "0">>)

C18_Witness ==
    /\ script = <<Digit("5"), Op("add"), Op("multiply"), Digit("2"), Equals>>
    /\ pc = 6
    /\ currentValue = <<"1", "0">>
    /\ operation = "null"
    /\ currentExpression = <<"5", " ", "*", " ", "2", " ", "=">>

\* C19, the frame: a step that changes the error message is not an
\* InputDigit, a Backspace, a ToggleSign or an Equals with no operation
\* pending.
C19_ErrorUnchanged ==
    errorText' # errorText
    => (/\ \A d \in Digits \cup {"."} : ~Took(Digit(d))
        /\ ~Took(Backspace)
        /\ ~Took(Sign)
        /\ ~(~Pending /\ Took(Equals)))

\* C19, the clearing: a step that leaves a message shown is not a successful
\* ApplyBinaryOperator, a successful Equals or a Clear.
C19_ErrorCleared ==
    errorText' # ""
    => (/\ \A name \in Operations :
              ~(~SqrtFails(name) /\ ~ChainFails(name) /\ Took(Op(name)))
        /\ ~(/\ Pending
             /\ ~Call(operation, previousValue, parseFloat(currentValue)).threw
             /\ Took(Equals))
        /\ ~Took(Clear))

\* C19: the error message is changed only by ApplyBinaryOperator, by Equals
\* with an operation pending and by Clear; it stays while the next operand is
\* typed and is empty after every successful ApplyBinaryOperator, successful
\* Equals and Clear.
C19_ErrorMessageFrame == [][C19_ErrorUnchanged /\ C19_ErrorCleared]_vars

\* 5 / 0 = 5: the error of the failed Equals is still shown after the digit
C19_Witness ==
    /\ script = <<Digit("5"), Op("divide"), Digit("0"), Equals, Digit("5"),
                  Equals>>
    /\ pc = 6
    /\ currentValue = <<"5">>
    /\ ~shouldResetDisplay
    /\ errorText = "Cannot divide by zero"

=============================================================================
